---- MODULE Spec2Model ----
(***************************************************************************)
(* Model of rpi-wps.py: a UART pressure logger that buffers readings,      *)
(* flushes them every SAVE_INTERVAL seconds to a daily workbook and a      *)
(* daily CSV (in the working directory and, when present, on a USB mount), *)
(* rotates the files at a date change and flushes once more on exit.       *)
(***************************************************************************)
EXTENDS Integers, Sequences, FiniteSets, TLC

\* ------------------------------------------------------------------------
\* Program constant and bounds of the model
\* ------------------------------------------------------------------------
SAVE_INTERVAL == 10

MaxTime == 12
MaxDay == 2
MaxReadings == 2
MaxFaults == 1
MaxRestarts == 1

\* ------------------------------------------------------------------------
\* Values
\* ------------------------------------------------------------------------
None == "none"
\* an empty cell of column A and of column B (row[0] is None, row[1] is None)
NoTs == <<0, 0>>
NoValue == 0 - 1
\* the clock is read with a granularity of half the save interval
TickStep == SAVE_INTERVAL \div 2
Days == 1..MaxDay
Exts == {"xlsx", "csv"}
\* directories a store can live in: the two working locations and the mount
WorkDirs == {"home", "usb"}
MountDirs == {"usb"}
Dirs == WorkDirs \cup MountDirs
\* what /media/pi can list: nothing, a mount, a plain file before it, two mounts
Listings == {<<>>, <<"usb">>, <<"file", "usb">>, <<"usb", "usb2">>}
IsDir(e) == e # "file"
\* the numeric literals the sensor sends and the numbers float() makes of them
FloatOf == ("1" :> 1) @@ ("2" :> 2) @@ ("3" :> 3)
Values == {FloatOf[s] : s \in DOMAIN FloatOf}
\* what one readline() can yield: bytes that are valid UTF-8 or not, and, once
\* decoded and stripped, a two-character prefix and a remainder
Lines ==
    [utf8 : {TRUE}, prefix : {"P="}, rest : DOMAIN FloatOf \cup {"", "abc"}]
    \cup [utf8 : {TRUE}, prefix : {"p=", ""}, rest : {"1", "", "abc"}]
    \cup {[utf8 |-> FALSE, prefix |-> "", rest |-> ""]}

AllPaths == [dir : Dirs, day : Days, ext : Exts]

\* a store: a file that is missing, or one with a header row and data rows;
\* raw = rows 2.. of columns A-B (or of the CSV), agg = rows 2.. of columns D-E
Missing == [exists |-> FALSE, header |-> FALSE, raw |-> <<>>, agg |-> <<>>]
NewStore == [exists |-> TRUE, header |-> TRUE, raw |-> <<>>, agg |-> <<>>]

\* ------------------------------------------------------------------------
\* Pure functions of the program
\* ------------------------------------------------------------------------
RECURSIVE FirstDir(_)
FirstDir(listing) ==
    IF listing = <<>> THEN None
    ELSE IF IsDir(Head(listing)) THEN Head(listing)
    ELSE FirstDir(Tail(listing))

get_usb_mount_point(listing) == FirstDir(listing)

\* the daily file name is the prefix, the date and the extension
get_daily_filename(today, extension) == [day |-> today, ext |-> extension]

PathIn(dir, filename) == [dir |-> dir, day |-> filename.day, ext |-> filename.ext]

get_output_paths(cwd, listing, today, extension) ==
    LET filename == get_daily_filename(today, extension)
        usb_mount == get_usb_mount_point(listing)
    IN  IF usb_mount # None
        THEN <<PathIn(cwd, filename), PathIn(usb_mount, filename)>>
        ELSE <<PathIn(cwd, filename)>>

\* (mutant) the header is written whether or not the file exists
initialize_truncating(f, p) == [f EXCEPT ![p] = NewStore]

initialize_excel(f, p) ==
    IF ~f[p].exists THEN [f EXCEPT ![p] = NewStore] ELSE f

initialize_csv(f, p) ==
    IF ~f[p].exists THEN [f EXCEPT ![p] = NewStore] ELSE f

load_excel(f, p) == f[p]

append_csv(f, p, rows) ==
    [f EXCEPT ![p] = [exists |-> TRUE, header |-> @.header,
                      raw |-> @.raw \o rows, agg |-> @.agg]]

\* wb.save(path) replaces the file by the in-memory workbook
save_workbook(f, p, wb) == [f EXCEPT ![p] = wb]

RECURSIVE InitExcelAll(_, _)
InitExcelAll(f, paths) ==
    IF paths = <<>> THEN f
    ELSE InitExcelAll(initialize_excel(f, Head(paths)), Tail(paths))

RECURSIVE InitCsvAll(_, _)
InitCsvAll(f, paths) ==
    IF paths = <<>> THEN f
    ELSE InitCsvAll(initialize_csv(f, Head(paths)), Tail(paths))

\* ts[:16] of "YYYY-MM-DD HH:MM:SS": the date and the minute
MinuteKey(ts) == <<ts[1], ts[2] \div 60>>

KeyLess(a, b) == a[1] < b[1] \/ (a[1] = b[1] /\ a[2] < b[2])

\* (mutant) the buckets are written latest minute first
RECURSIVE KeysDescending(_)
KeysDescending(S) ==
    IF S = {} THEN <<>>
    ELSE LET m == CHOOSE k \in S : \A o \in S : o = k \/ KeyLess(o, k)
         IN  <<m>> \o KeysDescending(S \ {m})

RECURSIVE SortedKeys(_)
SortedKeys(S) ==
    IF S = {} THEN <<>>
    ELSE LET m == CHOOSE k \in S : \A o \in S : o = k \/ KeyLess(k, o)
         IN  <<m>> \o SortedKeys(S \ {m})

RECURSIVE SumSeq(_)
SumSeq(s) == IF s = <<>> THEN 0 ELSE Head(s) + SumSeq(Tail(s))

\* (mutant) the averages are cut to three decimals instead of rounded
TruncateMilli(sum, n) == (1000 * sum) \div n

\* round(sum / n, 3), in thousandths, halves to the even neighbour
RoundMilli(sum, n) ==
    LET q == (1000 * sum) \div n
        r == (1000 * sum) % n
    IN  IF 2 * r > n \/ (2 * r = n /\ q % 2 = 1) THEN q + 1 ELSE q

RowsOfMinute(raw, k) == SelectSeq(raw, LAMBDA row : MinuteKey(row.ts) = k)

ValuesOf(rows) == [i \in 1..Len(rows) |-> rows[i].value]

\* lines 97-98: a row of columns A-B with an empty cell is skipped
HasBothFields(row) == row.ts # NoTs /\ row.value # NoValue

\* without a complete row the function returns before it clears anything;
\* otherwise the old block is cleared down to max_row, the last row of the
\* sheet over all columns, and the new block is written from row 2
update_minute_averages_table(sheet) ==
    LET raw_data == SelectSeq(sheet.raw, HasBothFields)
    IN  IF raw_data = <<>> THEN sheet
        ELSE LET keys == SortedKeys({MinuteKey(raw_data[i].ts) : i \in 1..Len(raw_data)})
             IN  [sheet EXCEPT !.agg =
                    [i \in 1..Len(keys) |->
                        LET pressures == ValuesOf(RowsOfMinute(raw_data, keys[i]))
                        IN  [minute |-> keys[i],
                             avg |-> RoundMilli(SumSeq(pressures), Len(pressures))]]]

is_float(value_str) == value_str \in DOMAIN FloatOf

\* whether process_sensor_data returns a reading for the line
IsReading(line) == line.prefix = "P=" /\ is_float(line.rest)

\* the reading process_sensor_data returns at wall-clock time ts
process_sensor_data(line, ts) == [ts |-> ts, value |-> FloatOf[line.rest]]

\* the stripped text of a line is empty (the `if line:` test fails)
IsEmptyLine(line) == line.prefix = "" /\ line.rest = ""

\* ------------------------------------------------------------------------
\* float() and process_sensor_data over the characters of a line
\* ------------------------------------------------------------------------
MaxChars == 3

\* characters of the remainder of a line: digits, signs, the point, the
\* exponent mark and the letters of "nan" and "inf"
Digits == {"0", "1"}
Signs == {"+", "-"}
Chars == Digits \cup Signs \cup {".", "e", "n", "a", "i", "f"}
Texts == UNION {[1..n -> Chars] : n \in 0..MaxChars}
\* what a line starts with: the prefix, its lower case, half of it, nothing
Prefixes == {"P=", "p=", "P", ""}
TextLines == [prefix : Prefixes, rest : Texts]

DigitValue == ("0" :> 0) @@ ("1" :> 1)

RECURSIVE NumberOf(_)
NumberOf(digits) ==
    IF digits = <<>> THEN 0
    ELSE 10 * NumberOf(SubSeq(digits, 1, Len(digits) - 1))
            + DigitValue[digits[Len(digits)]]

Unsigned(text) == IF text # <<>> /\ text[1] \in Signs THEN Tail(text) ELSE text
IsNegative(text) == text # <<>> /\ text[1] = "-"
IsDigits(text) == text # <<>> /\ \A i \in DOMAIN text : text[i] \in Digits
WithoutPoint(text) == SelectSeq(text, LAMBDA c : c # ".")

\* the first exponent mark splits a number into mantissa and exponent
MarkAt(text) ==
    IF \E i \in DOMAIN text : text[i] = "e"
    THEN CHOOSE i \in DOMAIN text : text[i] = "e" /\ \A j \in 1..(i - 1) : text[j] # "e"
    ELSE 0
MantissaOf(text) == IF MarkAt(text) = 0 THEN text ELSE SubSeq(text, 1, MarkAt(text) - 1)
ExponentOf(text) == SubSeq(text, MarkAt(text) + 1, Len(text))
\* digits with at most one point among them
IsMantissa(text) ==
    /\ Len(text) - Len(WithoutPoint(text)) <= 1
    /\ IsDigits(WithoutPoint(text))
IsExponent(text) == IsDigits(Unsigned(text))
IsNumber(text) ==
    /\ IsMantissa(MantissaOf(text))
    /\ MarkAt(text) # 0 => IsExponent(ExponentOf(text))
\* the digits after the point
FractionLen(text) ==
    IF \E i \in DOMAIN text : text[i] = "."
    THEN Len(text) - (CHOOSE i \in DOMAIN text : text[i] = ".")
    ELSE 0

\* float(text): a ValueError ("error"), or the float, which is nan, an
\* infinity, or the number digits * 10^exp
float(text) ==
    LET body == Unsigned(text)
        exponent == IF MarkAt(body) = 0 THEN <<>> ELSE ExponentOf(body)
    IN  IF body = <<"n", "a", "n">>
        THEN [kind |-> "nan", negative |-> IsNegative(text), digits |-> 0, exp |-> 0]
        ELSE IF body = <<"i", "n", "f">>
        THEN [kind |-> "inf", negative |-> IsNegative(text), digits |-> 0, exp |-> 0]
        ELSE IF IsNumber(body)
        THEN [kind |-> "finite", negative |-> IsNegative(text),
              digits |-> NumberOf(WithoutPoint(MantissaOf(body))),
              exp |-> (IF exponent = <<>> THEN 0
                       ELSE (IF IsNegative(exponent) THEN 0 - 1 ELSE 1)
                               * NumberOf(Unsigned(exponent)))
                      - FractionLen(MantissaOf(body))]
        ELSE [kind |-> "error", negative |-> FALSE, digits |-> 0, exp |-> 0]

\* lines 25-31: True unless float() raises ValueError
is_float_text(text) == float(text).kind # "error"

\* lines 144-156 over the characters: the readings returned, none or one
process_sensor_text(text_line, ts) ==
    IF text_line.prefix = "P=" /\ is_float_text(text_line.rest)
    THEN <<[ts |-> ts, value |-> float(text_line.rest)]>>
    ELSE <<>>

\* ------------------------------------------------------------------------
\* State
\* ------------------------------------------------------------------------
VARIABLES
    pc,              \* the statement of main() the process is at
    mode,            \* which flush is running: "rot", "per", "fin", or "none"
    day, now,        \* the wall clock: time.strftime("%Y-%m-%d"), time.time()
    cwd,             \* Path.cwd() of the process
    parsed_line,     \* the text handed to process_sensor_data, where it is applied on its own
    current_date, new_date,
    excel_paths, csv_paths,
    ws,              \* the in-memory workbook (wb, ws)
    readings_buffer,
    last_save_time,
    idx,             \* position of the running `for path in ...` loop
    ser_open,        \* the serial handle is open
    fs,              \* the files: path -> store
    \* history of the run, read by the properties and by the bounds only
    nread,           \* readings accepted so far
    faults,          \* exceptions raised so far
    restarts,        \* times the process was started again
    interrupted,     \* where KeyboardInterrupt arrived: "flush", "loop", or None
    fault,           \* what raised in this process: the destination of a write, or the read
    rot0,            \* files, sheet and Buffer as the rotation check found them
    last_flush       \* time of the most recent flush that ran to its end

vars == <<pc, mode, day, now, cwd, parsed_line, current_date, new_date, excel_paths, csv_paths,
          ws, readings_buffer, last_save_time, idx, ser_open, fs,
          nread, faults, restarts, interrupted, fault, rot0, last_flush>>

procVars == <<cwd, parsed_line, current_date, new_date, excel_paths, csv_paths, ws,
              readings_buffer, last_save_time, idx, ser_open>>
clockVars == <<day, now>>
histVars == <<nread, faults, restarts, interrupted, fault, rot0, last_flush>>

NoFs == [p \in AllPaths |-> Missing]
NoFail == [ext |-> None, i |-> 0]
NoRot == [on |-> FALSE, fs |-> NoFs, raw |-> <<>>, buf |-> <<>>]
\* main() drops a line within the step that reads it
NoLine == [prefix |-> "", rest |-> <<>>]

FlushPcs == {"append", "save", "csv", "clear"}
LoopPcs == {"check", "switch", "read", "percheck", "stamp", "sleep"}
\* the process is inside the `while True` of the try block
InLoop == pc \in LoopPcs \/ (pc \in FlushPcs /\ mode \in {"rot", "per"})
Running == pc \notin {"exited", "crashed"}

\* lines 166-178: what a start of main() in working directory c leaves, with
\* /media/pi listing l
Startup(c, l, f) ==
    LET xl == get_output_paths(c, l, day, "xlsx")
        cs == get_output_paths(c, l, day, "csv")
        f1 == InitCsvAll(InitExcelAll(f, xl), cs)
    IN  /\ cwd' = c
        /\ parsed_line' = parsed_line
        /\ current_date' = day
        /\ new_date' = day
        /\ excel_paths' = xl
        /\ csv_paths' = cs
        /\ fs' = f1
        /\ ws' = load_excel(f1, xl[1])
        /\ readings_buffer' = <<>>
        /\ last_save_time' = now
        /\ last_flush' = now
        /\ idx' = 1
        /\ ser_open' = TRUE
        /\ pc' = "check"
        /\ mode' = None
        /\ interrupted' = None
        /\ fault' = NoFail
        /\ rot0' = NoRot

\* the first start, on day 1 at time 0 with no file on disk
Init ==
    /\ day = 1 /\ now = 0
    /\ \E c \in WorkDirs, l \in Listings :
        LET xl == get_output_paths(c, l, 1, "xlsx")
            cs == get_output_paths(c, l, 1, "csv")
            f1 == InitCsvAll(InitExcelAll(NoFs, xl), cs)
        IN  /\ cwd = c
            /\ excel_paths = xl
            /\ csv_paths = cs
            /\ fs = f1
            /\ ws = load_excel(f1, xl[1])
    /\ parsed_line = NoLine
    /\ current_date = 1 /\ new_date = 1
    /\ readings_buffer = <<>>
    /\ last_save_time = 0 /\ last_flush = 0
    /\ idx = 1
    /\ ser_open = TRUE
    /\ pc = "check" /\ mode = None
    /\ nread = 0 /\ faults = 0 /\ restarts = 0
    /\ interrupted = None /\ fault = NoFail /\ rot0 = NoRot

\* ------------------------------------------------------------------------
\* The environment: the clock, and the operator starting the program again
\* ------------------------------------------------------------------------
\* time passes while the process blocks, in readline() (timeout 1 s) or in
\* sleep(0.1)
TickTime ==
    /\ pc \in {"read", "sleep"}
    /\ now + TickStep <= MaxTime
    /\ now' = now + TickStep
    /\ UNCHANGED <<pc, mode, day, procVars, fs, histVars>>

Midnight ==
    /\ pc \in {"read", "sleep"}
    /\ day < MaxDay
    /\ day' = day + 1
    /\ UNCHANGED <<pc, mode, now, procVars, fs, histVars>>

\* main() is run again after the process ended; the files are still there
Restart ==
    /\ ~Running
    /\ restarts < MaxRestarts
    /\ restarts' = restarts + 1
    /\ \E c \in WorkDirs, l \in Listings : Startup(c, l, fs)
    /\ UNCHANGED <<clockVars, nread, faults>>

\* ------------------------------------------------------------------------
\* The loop of main()
\* ------------------------------------------------------------------------
\* lines 182-188: the rotation check
Check ==
    /\ pc = "check"
    /\ new_date' = day
    /\ IF day # current_date
       THEN IF readings_buffer # <<>>
            THEN /\ pc' = "append" /\ mode' = "rot"
                 /\ rot0' = [on |-> TRUE, fs |-> fs, raw |-> ws.raw,
                             buf |-> readings_buffer]
            ELSE /\ pc' = "switch" /\ UNCHANGED <<mode, rot0>>
       ELSE /\ pc' = "read" /\ UNCHANGED <<mode, rot0>>
    /\ UNCHANGED <<clockVars, cwd, parsed_line, current_date, excel_paths, csv_paths, ws,
                   readings_buffer, last_save_time, idx, ser_open, fs,
                   nread, faults, restarts, interrupted, fault, last_flush>>

\* for r in rows: ws.append(r)
append_rows(sheet, rows) == [sheet EXCEPT !.raw = @ \o rows]

\* lines 189-191, 218-220, 237-239: the Buffer is appended to the sheet and
\* the minute averages are recomputed
AppendRows ==
    /\ pc = "append"
    /\ ws' = update_minute_averages_table(append_rows(ws, readings_buffer))
    /\ pc' = "save"
    /\ idx' = 1
    /\ UNCHANGED <<mode, clockVars, cwd, parsed_line, current_date, new_date, excel_paths,
                   csv_paths, readings_buffer, last_save_time, ser_open, fs,
                   histVars>>

\* an exception leaves the try block: the loop ends and the finally block
\* runs; raised in the finally block, it ends the process
Raise ==
    /\ faults < MaxFaults
    /\ faults' = faults + 1
    /\ pc' = IF mode = "fin" THEN "crashed" ELSE "finally"
    /\ mode' = IF mode = "fin" THEN "fin" ELSE None

\* lines 192-193, 221-222, 240-241: one wb.save(path) of the loop
SaveWorkbook ==
    /\ pc = "save"
    /\ fs' = save_workbook(fs, excel_paths[idx], ws)
    /\ IF idx < Len(excel_paths)
       THEN idx' = idx + 1 /\ pc' = "save"
       ELSE idx' = 1 /\ pc' = "csv"
    /\ UNCHANGED <<mode, clockVars, cwd, parsed_line, current_date, new_date, excel_paths,
                   csv_paths, ws, readings_buffer, last_save_time, ser_open,
                   histVars>>

\* (mutant) the exception of wb.save is swallowed and the flush goes on
SaveWorkbookFailsSwallowed ==
    /\ pc = "save"
    /\ faults < MaxFaults
    /\ faults' = faults + 1
    /\ fault' = [ext |-> "xlsx", i |-> idx]
    /\ IF idx < Len(excel_paths)
       THEN idx' = idx + 1 /\ pc' = "save"
       ELSE idx' = 1 /\ pc' = "csv"
    /\ UNCHANGED <<mode, clockVars, cwd, parsed_line, current_date, new_date, excel_paths,
                   csv_paths, ws, readings_buffer, last_save_time, ser_open, fs,
                   nread, restarts, interrupted, rot0, last_flush>>

SaveWorkbookFails ==
    /\ pc = "save"
    /\ Raise
    /\ fault' = [ext |-> "xlsx", i |-> idx]
    /\ UNCHANGED <<clockVars, procVars, fs, nread, restarts, interrupted, rot0,
                   last_flush>>

\* where a flush goes once its last append_csv returned
AfterCsv == IF mode = "fin" THEN "close" ELSE "clear"

\* (mutant) only csv_paths[0] is written
AppendCsvPrimaryOnly ==
    /\ pc = "csv"
    /\ fs' = append_csv(fs, csv_paths[1], readings_buffer)
    /\ idx' = 1 /\ pc' = AfterCsv
    /\ UNCHANGED <<mode, clockVars, cwd, parsed_line, current_date, new_date, excel_paths,
                   csv_paths, ws, readings_buffer, last_save_time, ser_open,
                   histVars>>

\* lines 194-195, 223-224, 242-243: one append_csv(path, readings_buffer)
AppendCsv ==
    /\ pc = "csv"
    /\ fs' = append_csv(fs, csv_paths[idx], readings_buffer)
    /\ IF idx < Len(csv_paths)
       THEN idx' = idx + 1 /\ pc' = "csv"
       ELSE idx' = 1 /\ pc' = AfterCsv
    /\ UNCHANGED <<mode, clockVars, cwd, parsed_line, current_date, new_date, excel_paths,
                   csv_paths, ws, readings_buffer, last_save_time, ser_open,
                   histVars>>

AppendCsvFails ==
    /\ pc = "csv"
    /\ Raise
    /\ fault' = [ext |-> "csv", i |-> idx]
    /\ UNCHANGED <<clockVars, procVars, fs, nread, restarts, interrupted, rot0,
                   last_flush>>

\* lines 196, 226: readings_buffer.clear()
Clear ==
    /\ pc = "clear"
    /\ readings_buffer' = <<>>
    /\ pc' = IF mode = "rot" THEN "switch" ELSE "stamp"
    /\ mode' = None
    /\ last_flush' = now
    /\ UNCHANGED <<clockVars, cwd, parsed_line, current_date, new_date, excel_paths, csv_paths,
                   ws, last_save_time, idx, ser_open, fs,
                   nread, faults, restarts, interrupted, fault, rot0>>

\* line 227
Stamp ==
    /\ pc = "stamp"
    /\ last_save_time' = now
    /\ pc' = "sleep"
    /\ UNCHANGED <<mode, clockVars, cwd, parsed_line, current_date, new_date, excel_paths,
                   csv_paths, ws, readings_buffer, idx, ser_open, fs, histVars>>

\* lines 198-205: the new day's destinations, stores and workbook
Switch ==
    /\ pc = "switch"
    /\ current_date' = new_date
    /\ \E l \in Listings :
        LET xl == get_output_paths(cwd, l, day, "xlsx")
            cs == get_output_paths(cwd, l, day, "csv")
            f1 == InitCsvAll(InitExcelAll(fs, xl), cs)
        IN  /\ excel_paths' = xl
            /\ csv_paths' = cs
            /\ fs' = f1
            /\ ws' = load_excel(f1, xl[1])
    /\ pc' = "read"
    /\ rot0' = NoRot
    /\ UNCHANGED <<mode, clockVars, cwd, parsed_line, new_date, readings_buffer,
                   last_save_time, idx, ser_open,
                   nread, faults, restarts, interrupted, fault, last_flush>>

\* lines 207-208: readline() timed out, or the line is blank
ReadNothing ==
    /\ pc = "read"
    /\ \E line \in Lines : line.utf8 /\ IsEmptyLine(line)
    /\ pc' = "percheck"
    /\ UNCHANGED <<mode, clockVars, procVars, fs, histVars>>

\* lines 207-213: a line that process_sensor_data accepts
ReadReading ==
    /\ pc = "read"
    /\ nread < MaxReadings
    /\ \E line \in Lines :
        /\ line.utf8 /\ ~IsEmptyLine(line) /\ IsReading(line)
        \* the sensor's k-th accepted value is k: the readings differ
        /\ FloatOf[line.rest] = nread + 1
        /\ readings_buffer' =
              Append(readings_buffer, process_sensor_data(line, <<day, now>>))
    /\ nread' = nread + 1
    /\ pc' = "percheck"
    /\ UNCHANGED <<mode, clockVars, cwd, parsed_line, current_date, new_date, excel_paths,
                   csv_paths, ws, last_save_time, idx, ser_open, fs,
                   faults, restarts, interrupted, fault, rot0, last_flush>>

\* lines 207-215: a line that process_sensor_data rejects
ReadInvalid ==
    /\ pc = "read"
    /\ \E line \in Lines : line.utf8 /\ ~IsEmptyLine(line) /\ ~IsReading(line)
    /\ pc' = "percheck"
    /\ UNCHANGED <<mode, clockVars, procVars, fs, histVars>>

\* line 142: decode('utf-8') raises on bytes that are not UTF-8
ReadUndecodable ==
    /\ pc = "read"
    /\ \E line \in Lines : ~line.utf8
    /\ Raise
    /\ fault' = [ext |-> "read", i |-> 0]
    /\ UNCHANGED <<clockVars, procVars, fs, nread, restarts, interrupted, rot0,
                   last_flush>>

\* (mutant) the test of line 217 without `and readings_buffer`
PeriodicCheckNoBufferTest ==
    /\ pc = "percheck"
    /\ IF now - last_save_time >= SAVE_INTERVAL
       THEN pc' = "append" /\ mode' = "per"
       ELSE pc' = "sleep" /\ mode' = mode
    /\ UNCHANGED <<clockVars, procVars, fs, nread, faults, restarts, interrupted,
                   fault, rot0, last_flush>>

\* (mutant) the periodic flush is never started
PeriodicCheckNeverFlushes ==
    /\ pc = "percheck"
    /\ pc' = "sleep" /\ mode' = mode
    /\ UNCHANGED <<clockVars, procVars, fs, nread, faults, restarts, interrupted,
                   fault, rot0, last_flush>>

\* line 217: the test of the periodic flush
PeriodicCheck ==
    /\ pc = "percheck"
    /\ IF now - last_save_time >= SAVE_INTERVAL /\ readings_buffer # <<>>
       THEN pc' = "append" /\ mode' = "per"
       ELSE pc' = "sleep" /\ mode' = mode
    /\ UNCHANGED <<clockVars, procVars, fs, nread, faults, restarts, interrupted,
                   fault, rot0, last_flush>>

\* line 229
Sleep ==
    /\ pc = "sleep"
    /\ pc' = "check"
    /\ UNCHANGED <<mode, clockVars, procVars, fs, histVars>>

\* KeyboardInterrupt at any statement of the loop; inside the ws.append loop
\* it arrives after k of the rows were appended
Interrupt ==
    /\ InLoop
    /\ interrupted' = IF pc \in FlushPcs THEN "flush" ELSE "loop"
    /\ IF pc = "append"
       THEN \E k \in 0..Len(readings_buffer) :
                ws' = append_rows(ws, SubSeq(readings_buffer, 1, k))
       ELSE ws' = ws
    /\ pc' = "finally"
    /\ mode' = None
    /\ UNCHANGED <<clockVars, cwd, parsed_line, current_date, new_date, excel_paths, csv_paths,
                   readings_buffer, last_save_time, idx, ser_open, fs,
                   nread, faults, restarts, fault, rot0, last_flush>>

\* (mutant) a finally block that only closes the port
FinallyNoFlush ==
    /\ pc = "finally"
    /\ pc' = "close" /\ mode' = mode
    /\ UNCHANGED <<clockVars, procVars, fs, histVars>>

\* line 236: the finally block
Finally ==
    /\ pc = "finally"
    /\ IF readings_buffer # <<>>
       THEN pc' = "append" /\ mode' = "fin"
       ELSE pc' = "close" /\ mode' = mode
    /\ UNCHANGED <<clockVars, procVars, fs, histVars>>

\* line 245: ser.close()
Close ==
    /\ pc = "close"
    /\ ser_open' = FALSE
    /\ pc' = "exited"
    /\ UNCHANGED <<mode, clockVars, cwd, parsed_line, current_date, new_date, excel_paths,
                   csv_paths, ws, readings_buffer, last_save_time, idx, fs,
                   histVars>>

Next ==
    \/ TickTime \/ Midnight
    \/ Check \/ AppendRows
    \/ SaveWorkbook \/ SaveWorkbookFails \/ AppendCsv \/ AppendCsvFails
    \/ Clear \/ Stamp \/ Switch
    \/ ReadNothing \/ ReadReading \/ ReadInvalid \/ ReadUndecodable
    \/ PeriodicCheck \/ Sleep \/ Interrupt \/ Finally \/ Close

\* one run of main(), from its start to the end of the process
Spec == Init /\ [][Next]_vars

\* runs of main() one after the other over the same files
NextR == Next \/ Restart

SpecR == Init /\ [][NextR]_vars

TypeOK ==
    /\ pc \in LoopPcs \cup FlushPcs \cup {"finally", "close", "exited", "crashed"}
    /\ mode \in {None, "rot", "per", "fin"}
    /\ day \in Days /\ now \in 0..MaxTime
    /\ idx \in 1..2

\* the statements of the process (the read returns after its timeout at the
\* latest), apart from a raising write
Program ==
    \/ Check \/ AppendRows \/ SaveWorkbook \/ AppendCsv
    \/ Clear \/ Stamp \/ Switch
    \/ ReadNothing \/ ReadReading \/ ReadInvalid
    \/ PeriodicCheck \/ Sleep \/ Finally \/ Close

\* a run in which no write raises
NextLive == TickTime \/ Midnight \/ Program \/ ReadUndecodable \/ Interrupt

\* the process always takes its next statement, and time passes at the
\* blocking read and sleep of the iterations again and again
SpecLive == Init /\ [][NextLive]_vars /\ WF_vars(Program) /\ SF_vars(TickTime)

\* ------------------------------------------------------------------------
\* update_minute_averages_table on its own
\* ------------------------------------------------------------------------
MaxRows == 4

\* cells of columns A and B: a second of the last minute of the model's day 1
\* and one of the first minute of day 2, two pressures, and the empty cell
RowTimes == {<<1, 60>>, <<2, 0>>, NoTs}
RowValues == {1, 2, NoValue}
Rows == [ts : RowTimes, value : RowValues]
RawTables == UNION {[1..n -> Rows] : n \in 0..MaxRows}

\* what main() is not at while the function is applied
Idle ==
    /\ day = 1 /\ now = 0
    /\ cwd = "home" /\ current_date = 1 /\ new_date = 1
    /\ excel_paths = <<>> /\ csv_paths = <<>>
    /\ fs = NoFs
    /\ readings_buffer = <<>>
    /\ last_save_time = 0 /\ last_flush = 0
    /\ idx = 1
    /\ ser_open = FALSE
    /\ mode = None
    /\ nread = 0 /\ faults = 0 /\ restarts = 0
    /\ interrupted = None /\ fault = NoFail /\ rot0 = NoRot

\* a sheet as a flush hands it over: rows of columns A-B in any order of
\* arrival, some with an empty cell, and in columns D-E the block the
\* function wrote when only the first k rows were there
InitAggregate ==
    /\ Idle
    /\ parsed_line = NoLine
    /\ pc = "agg_call"
    /\ \E raw \in RawTables : \E k \in 0..Len(raw) :
          ws = [NewStore EXCEPT !.raw = raw,
                                !.agg = update_minute_averages_table(
                                           [NewStore EXCEPT !.raw = SubSeq(raw, 1, k)]).agg]

\* lines 191, 220, 239: update_minute_averages_table(ws)
ApplyAggregate ==
    /\ pc = "agg_call"
    /\ ws' = update_minute_averages_table(ws)
    /\ pc' = "agg_done"
    /\ UNCHANGED <<mode, clockVars, cwd, parsed_line, current_date, new_date, excel_paths,
                   csv_paths, readings_buffer, last_save_time, idx, ser_open, fs,
                   histVars>>

NextAggregate == ApplyAggregate

SpecAggregate == InitAggregate /\ [][NextAggregate]_vars

\* ------------------------------------------------------------------------
\* process_sensor_data on its own
\* ------------------------------------------------------------------------
InitParse ==
    /\ Idle
    /\ pc = "parse_call"
    /\ ws = NewStore
    /\ parsed_line \in TextLines

\* lines 209-213: data = process_sensor_data(line), appended when not None
ApplyParse ==
    /\ pc = "parse_call"
    /\ readings_buffer' =
          readings_buffer \o process_sensor_text(parsed_line, <<day, now>>)
    /\ pc' = "parse_done"
    /\ UNCHANGED <<mode, clockVars, cwd, parsed_line, current_date, new_date,
                   excel_paths, csv_paths, ws, last_save_time, idx, ser_open, fs,
                   histVars>>

NextParse == ApplyParse

SpecParse == InitParse /\ [][NextParse]_vars

\* ------------------------------------------------------------------------
\* Properties
\* ------------------------------------------------------------------------
IsPrefix(s, t) == Len(s) <= Len(t) /\ SubSeq(t, 1, Len(s)) = s
IsSuffix(s, t) == Len(s) <= Len(t) /\ SubSeq(t, Len(t) - Len(s) + 1, Len(t)) = s
Count(seq, x) == Cardinality({i \in DOMAIN seq : seq[i] = x})

RECURSIVE Repeat(_, _)
Repeat(rows, k) == IF k = 0 THEN <<>> ELSE rows \o Repeat(rows, k - 1)

\* C1 (state part): when the flush forced by a date change has run to its end
\* and the destinations are not yet re-resolved, the Buffer is empty, every
\* raw path of the outgoing day holds what it held at the rotation check
\* followed by the whole Buffer, once for each time the path is listed, every
\* aggregate path holds the sheet of the rotation check followed by the whole
\* Buffer, and no store of the new day has changed.
RotationFlushed ==
    (pc = "switch" /\ rot0.on) =>
        /\ readings_buffer = <<>>
        /\ current_date # new_date
        /\ \A i \in DOMAIN csv_paths :
              LET p == csv_paths[i]
              IN  /\ p.day = current_date
                  /\ fs[p].raw =
                        rot0.fs[p].raw \o Repeat(rot0.buf, Count(csv_paths, p))
        /\ \A i \in DOMAIN excel_paths :
              LET p == excel_paths[i]
              IN  /\ p.day = current_date
                  /\ fs[p].raw = rot0.raw \o rot0.buf
        /\ \A p \in AllPaths : p.day = new_date => fs[p] = rot0.fs[p]

\* C1 (step part): the step that ends the rotation leaves the Buffer empty,
\* the new date as the active day and the destinations of the new date.
RotationEnds ==
    (pc = "switch" /\ pc' = "read") =>
        /\ readings_buffer' = <<>>
        /\ current_date' = new_date
        /\ \A i \in DOMAIN excel_paths' : excel_paths'[i].day = new_date
        /\ \A i \in DOMAIN csv_paths' : csv_paths'[i].day = new_date

\* C1: a rotation check that sees a new date with a non-empty Buffer is
\* followed by exactly one flush of the whole Buffer to the outgoing day's raw
\* and aggregate paths, before the destinations are re-resolved and before a
\* store of the new day is written; the rotation ends with the Buffer empty
\* and the new date active.
RotationBoundary == []RotationFlushed /\ [][RotationEnds]_vars

RotationBoundaryWitness ==
    /\ pc = "switch" /\ rot0.on
    /\ Len(csv_paths) = 2 /\ csv_paths[1] # csv_paths[2]
    /\ Len(rot0.buf) = 2

\* C2: when the process has exited after an interrupt that arrived in the
\* loop, every raw CSV path, and the raw table of every workbook path, ends
\* with the readings the Buffer held (no write of the final flush having
\* raised).
ShutdownNoLoss ==
    (pc = "exited" /\ interrupted # None) =>
        /\ \A i \in DOMAIN csv_paths :
              IsSuffix(readings_buffer, fs[csv_paths[i]].raw)
        /\ \A i \in DOMAIN excel_paths :
              IsSuffix(readings_buffer, fs[excel_paths[i]].raw)

ShutdownNoLossWitness ==
    /\ pc = "exited" /\ interrupted = "flush"
    /\ readings_buffer # <<>>
    /\ Len(csv_paths) = 2 /\ csv_paths[1] # csv_paths[2]

\* the destinations of the flush other than the one whose write raised
OtherExcel == {i \in DOMAIN excel_paths : ~(fault.ext = "xlsx" /\ fault.i = i)}
OtherCsv == {i \in DOMAIN csv_paths : ~(fault.ext = "csv" /\ fault.i = i)}

\* C3: when a write of a flush over two destinations has raised and the flush
\* is over, every other destination of the flush holds the full batch.
PartialDestinationResilience ==
    (/\ fault.ext \in {"xlsx", "csv"}
     /\ pc \in {"finally", "crashed"}
     /\ Len(excel_paths) = 2 /\ Len(csv_paths) = 2) =>
        /\ \A i \in OtherExcel : IsSuffix(readings_buffer, fs[excel_paths[i]].raw)
        /\ \A i \in OtherCsv : IsSuffix(readings_buffer, fs[csv_paths[i]].raw)

\* C4: a fault raised in the loop leaves the process in the loop.
FaultDoesNotEndLoop == [][(InLoop /\ fault' # fault) => InLoop']_vars

\* the flush has put the batch at every resolved destination
AllDestinationsHold(batch) ==
    /\ IsSuffix(batch, ws.raw)
    /\ \A i \in DOMAIN excel_paths : fs[excel_paths[i]] = ws
    /\ \A i \in DOMAIN csv_paths : IsSuffix(batch, fs[csv_paths[i]].raw)

BufferCleared ==
    (Running /\ readings_buffer # <<>> /\ readings_buffer' = <<>>) =>
        AllDestinationsHold(readings_buffer)

BufferKeptOnFault ==
    (InLoop /\ fault' # fault) => readings_buffer' = readings_buffer

\* C5: while the process runs, a step empties the Buffer only when every
\* resolved aggregate path holds the sheet with the batch and every resolved
\* raw path ends with the batch; a step in which a write raises leaves the
\* Buffer as it was.
BufferClearedOnlyAfterFullFlush == [][BufferCleared /\ BufferKeptOnFault]_vars

BufferClearedWitness ==
    /\ pc = "stamp" /\ readings_buffer = <<>>
    /\ Len(excel_paths) = 2 /\ excel_paths[1] # excel_paths[2]
    /\ Len(csv_paths) = 2

\* C6: the test of the periodic flush starts a flush exactly when the Buffer
\* is non-empty and SAVE_INTERVAL has passed since the most recent flush that
\* ran to its end, periodic or forced by rotation.
PeriodicFlushSinceLastFlush ==
    [][(pc = "percheck" /\ pc' \in {"append", "sleep"}) =>
          (pc' = "append" <=>
             (readings_buffer # <<>> /\ now - last_flush >= SAVE_INTERVAL))]_vars

StoresKeptWhileEmpty ==
    readings_buffer = <<>> =>
        \A p \in AllPaths :
            IF fs[p].exists THEN fs'[p] = fs[p] ELSE fs'[p] \in {Missing, NewStore}

\* C7: no statement of a flush is reached with an empty Buffer, and a step
\* taken with an empty Buffer leaves every existing store as it is (a store
\* that is missing may be created, holding its header only).
EmptyBufferNeverFlushed ==
    /\ [](pc \in {"append", "save", "csv", "clear"} => readings_buffer # <<>>)
    /\ [][StoresKeptWhileEmpty]_vars

EmptyBufferWitness ==
    /\ pc = "sleep" /\ readings_buffer = <<>>
    /\ now - last_save_time >= SAVE_INTERVAL
    /\ \E p \in AllPaths : fs[p].raw # <<>>

\* C8: a step leaves every existing store in existence, with the rows it had
\* as a prefix of the rows it has.
RawTableAppendOnly ==
    [][\A p \in AllPaths :
          fs[p].exists => (fs'[p].exists /\ IsPrefix(fs[p].raw, fs'[p].raw))]_vars

\* C9: on the files of every reachable state, initialize_csv and
\* initialize_excel leave an existing store and every other path as they are,
\* create a missing store with its header and no row, and change nothing
\* when called a second time.
IdempotentInitialization ==
    \A p \in AllPaths :
        /\ initialize_csv(initialize_csv(fs, p), p) = initialize_csv(fs, p)
        /\ initialize_excel(initialize_excel(fs, p), p) = initialize_excel(fs, p)
        /\ fs[p].exists => (initialize_csv(fs, p) = fs /\ initialize_excel(fs, p) = fs)
        /\ ~fs[p].exists =>
              /\ initialize_csv(fs, p) = [fs EXCEPT ![p] = NewStore]
              /\ initialize_excel(fs, p) = [fs EXCEPT ![p] = NewStore]

\* main() was started again on the day of stores that hold rows
IdempotentInitializationWitness ==
    /\ restarts > 0 /\ pc = "check" /\ nread = 1
    /\ readings_buffer = <<>> /\ last_save_time = now
    /\ csv_paths[1].day = day
    /\ fs[csv_paths[1]].raw # <<>> /\ fs[excel_paths[1]].raw # <<>>

\* C10: the resolved paths of each role are one or two, pairwise distinct,
\* the first being the daily file in the working directory.
OutputPathsDistinct ==
    \A paths \in {excel_paths, csv_paths} :
        /\ Len(paths) \in {1, 2}
        /\ paths[1].dir = cwd
        /\ \A i, j \in DOMAIN paths : i # j => paths[i] # paths[j]

\* the minute averages the program computes over the rows of a raw store
AggOf(raw) == update_minute_averages_table([NewStore EXCEPT !.raw = raw]).agg

\* a flush has written every destination and nothing of it has raised
FlushDone == pc = "clear" \/ (pc = "close" /\ mode = "fin")

\* C11: when a flush has run to its end, the minute averages stored in the
\* workbook of each destination are those computed anew over the rows of the
\* raw CSV of the same destination.
AggregateRoundTrip ==
    FlushDone =>
        \A i \in DOMAIN excel_paths :
            fs[excel_paths[i]].agg = AggOf(fs[csv_paths[i]].raw)

\* the minute averages stored in a workbook are those of its own columns A-B
AggregateOfOwnRawTable ==
    \A p \in AllPaths : p.ext = "xlsx" => fs[p].agg = AggOf(fs[p].raw)

\* the complete rows of columns A-B, their minutes, and the pressures of a minute
CompleteRows(raw) == {i \in DOMAIN raw : raw[i].ts # NoTs /\ raw[i].value # NoValue}
MinutesOf(raw) == {<<raw[i].ts[1], raw[i].ts[2] \div 60>> : i \in CompleteRows(raw)}
InMinute(raw, m) ==
    {i \in CompleteRows(raw) : raw[i].ts[1] = m[1] /\ raw[i].ts[2] \div 60 = m[2]}

RECURSIVE TotalOf(_, _)
TotalOf(raw, I) ==
    IF I = {} THEN 0
    ELSE LET i == CHOOSE j \in I : TRUE
         IN  raw[i].value + TotalOf(raw, I \ {i})

Abs(x) == IF x < 0 THEN 0 - x ELSE x

\* the block of columns D-E has one row for each minute of the complete rows
\* and no other row
OneRowPerMinute(sheet) ==
    /\ Len(sheet.agg) = Cardinality(MinutesOf(sheet.raw))
    /\ {sheet.agg[i].minute : i \in DOMAIN sheet.agg} = MinutesOf(sheet.raw)

\* C12 as stated: after update_minute_averages_table the block has exactly
\* one row for each minute of the rows that hold both fields, and the value of
\* a row, in thousandths, is the arithmetic mean of the pressures of its
\* minute.
AggregationExactMean ==
    pc = "agg_done" =>
        /\ OneRowPerMinute(ws)
        /\ \A i \in DOMAIN ws.agg :
              LET I == InMinute(ws.raw, ws.agg[i].minute)
              IN  ws.agg[i].avg * Cardinality(I) = 1000 * TotalOf(ws.raw, I)

\* C12: after update_minute_averages_table the block has exactly one row for
\* each minute of the rows that hold both fields and no row below them, rows
\* with an empty cell count in no minute, and the value of a row is the
\* thousandth nearest to the arithmetic mean of the pressures of its minute.
AggregationRoundedMean ==
    pc = "agg_done" =>
        /\ OneRowPerMinute(ws)
        /\ \A i \in DOMAIN ws.agg :
              LET I == InMinute(ws.raw, ws.agg[i].minute)
              IN  /\ I # {}
                  /\ 2 * Abs(ws.agg[i].avg * Cardinality(I) - 1000 * TotalOf(ws.raw, I))
                        <= Cardinality(I)

\* three rows of one minute whose mean is no whole thousandth, after a row
\* with an empty cell
AggregationWitness ==
    /\ pc = "agg_done"
    /\ Len(ws.raw) = 4
    /\ ws.raw[1].ts = NoTs
    /\ \E i \in DOMAIN ws.agg :
          LET I == InMinute(ws.raw, ws.agg[i].minute)
          IN  I = {2, 3, 4} /\ TotalOf(ws.raw, I) = 5 /\ ws.agg[i].avg = 1667

\* C13: after update_minute_averages_table the minutes of the block ascend
\* strictly from its first row down, whatever the order of the rows of
\* columns A-B.
AggregateRowsAscending ==
    pc = "agg_done" =>
        \A i, j \in DOMAIN ws.agg :
            i < j =>
                LET a == ws.agg[i].minute
                    b == ws.agg[j].minute
                IN  a[1] < b[1] \/ (a[1] = b[1] /\ a[2] < b[2])

\* the rows arrived latest minute first
AggregateRowsAscendingWitness ==
    /\ pc = "agg_done"
    /\ Len(ws.raw) = 3 /\ Len(ws.agg) = 2
    /\ ws.raw[1].ts = <<2, 0>> /\ ws.raw[2].ts = <<1, 60>> /\ ws.raw[3].ts = <<2, 0>>
    /\ \A i \in DOMAIN ws.raw : ws.raw[i].value # NoValue

\* a literal of a finite number, read character by character: an optional
\* sign, digits with an optional point before, among or after them, and an
\* optional exponent of an optional sign and digits
RECURSIVE ScanNumber(_, _)
ScanNumber(text, at) ==
    IF text = <<>> THEN at \in {"int", "frac", "exp"}
    ELSE LET c == Head(text)
             to == CASE at = "start" /\ c \in {"+", "-"} -> "sign"
                     [] at \in {"start", "sign", "int"} /\ c \in {"0", "1"} -> "int"
                     [] at \in {"start", "sign"} /\ c = "." -> "point"
                     [] at = "int" /\ c = "." -> "frac"
                     [] at \in {"point", "frac"} /\ c \in {"0", "1"} -> "frac"
                     [] at \in {"int", "frac"} /\ c = "e" -> "mark"
                     [] at = "mark" /\ c \in {"+", "-"} -> "esign"
                     [] at \in {"mark", "esign", "exp"} /\ c \in {"0", "1"} -> "exp"
                     [] OTHER -> "no"
         IN  to # "no" /\ ScanNumber(Tail(text), to)

IsFiniteLiteral(text) == ScanNumber(text, "start")

\* C14: process_sensor_data returns a reading exactly for the lines that are
\* "P=" followed by the literal of a finite number; empty and non-numeric
\* remainders, other prefixes and the literals of nan and the infinities are
\* rejected; the value of an accepted reading is finite.
ParserAcceptsFiniteNumbersOnly ==
    pc = "parse_done" =>
        /\ readings_buffer # <<>> <=>
              (parsed_line.prefix = "P=" /\ IsFiniteLiteral(parsed_line.rest))
        /\ \A i \in DOMAIN readings_buffer : readings_buffer[i].value.kind = "finite"

\* what process_sensor_data does accept: the literals float() takes
ParserAcceptsFloatLiterals ==
    pc = "parse_done" =>
        (readings_buffer # <<>> <=>
            /\ parsed_line.prefix = "P="
            /\ \/ IsFiniteLiteral(parsed_line.rest)
               \/ Unsigned(parsed_line.rest) \in {<<"n", "a", "n">>, <<"i", "n", "f">>})

\* C15: a step that reads a line and accepts no reading from it (the line is
\* blank, fails the parse, or is no valid text) goes on to the test of the
\* periodic flush inside the loop, with the Buffer, the sheet and every store
\* as they were.
MalformedInputNotFatal ==
    [][(/\ pc = "read" /\ pc' # "read"
        /\ nread' = nread /\ interrupted' = interrupted) =>
          (/\ pc' = "percheck"
           /\ readings_buffer' = readings_buffer
           /\ ws' = ws /\ fs' = fs)]_vars

\* C16: once the process has ended, by an interrupt or by a fault, and also
\* when a write of the final flush has raised, the serial handle is closed.
HandleReleasedOnEveryExit == ~Running => ~ser_open

\* the rows of the raw CSV files of the working directory, day after day
RECURSIVE PrimaryRawRows(_)
PrimaryRawRows(d) ==
    IF d = 0 THEN <<>>
    ELSE PrimaryRawRows(d - 1) \o fs[[dir |-> cwd, day |-> d, ext |-> "csv"]].raw

\* the k-th reading the program accepted carries the value k
ArrivalNumbers(rows) == [i \in DOMAIN rows |-> rows[i].value]

\* C17: while no write has raised and no interrupt has arrived, between two
\* flushes the rows of the primary raw stores followed by the Buffer are the
\* accepted readings, each once, in the order of their arrival.
RawRowsInArrivalOrder ==
    (faults = 0 /\ interrupted = None /\ pc \in LoopPcs) =>
        ArrivalNumbers(PrimaryRawRows(MaxDay) \o readings_buffer)
            = [i \in 1..nread |-> i]

\* with the working directory away from the mount the rows are in arrival order
RawRowsInArrivalOrderOffMount ==
    cwd \notin MountDirs => RawRowsInArrivalOrder

\* C18: no store holds a reading twice, neither a raw CSV nor the raw table
\* of a workbook, whatever reads, flushes, raised writes and interrupts came
\* before.
ReadingPersistedAtMostOnce ==
    \A p \in AllPaths :
        \A i, j \in DOMAIN fs[p].raw : i # j => fs[p].raw[i] # fs[p].raw[j]

\* C19: every row of a store named for a day carries a timestamp of that day.
ReadingStoredInFilesOfItsDay ==
    \A p \in AllPaths :
        \A i \in DOMAIN fs[p].raw : fs[p].raw[i].ts[1] = p.day

\* the k-th accepted reading is in the Buffer
InBuffer(k) == \E i \in DOMAIN readings_buffer : readings_buffer[i].value = k

\* the k-th accepted reading is in a raw CSV of the working directory and in
\* the raw table of a workbook of the working directory
Persisted(k) ==
    /\ \E d \in Days :
          LET rows == fs[[dir |-> cwd, day |-> d, ext |-> "csv"]].raw
          IN  \E i \in DOMAIN rows : rows[i].value = k
    /\ \E d \in Days :
          LET rows == fs[[dir |-> cwd, day |-> d, ext |-> "xlsx"]].raw
          IN  \E i \in DOMAIN rows : rows[i].value = k

\* the clock of the model is at its bound before the save interval has passed
ClockAtBound == now + TickStep > MaxTime /\ now - last_save_time < SAVE_INTERVAL

\* C20: when no write raises, a reading in the Buffer is later in the primary
\* raw store and in the raw table of the primary workbook (as far as the
\* clock of the model can reach the end of the save interval).
EventuallyPersisted ==
    \A k \in 1..MaxReadings : InBuffer(k) ~> (Persisted(k) \/ ClockAtBound)

\* a periodic flush has persisted the first reading and the loop goes on
EventuallyPersistedWitness ==
    /\ pc = "sleep" /\ interrupted = None /\ faults = 0
    /\ readings_buffer = <<>> /\ nread = 1
    /\ Persisted(1)
    /\ last_save_time = SAVE_INTERVAL

====
